---- MODULE Spec2Model ----
(***************************************************************************)
(* Claims-analytics core of skills/claims-data-analysis/scripts/           *)
(* claims_utils.py: build_diagnosis_cohort, calculate_pdc, calculate_pmpm  *)
(* and identify_episodes.                                                  *)
(*                                                                         *)
(* The four functions are pure functions of their argument tables (and of  *)
(* the wall clock, for the cohort builder).  The state is the caller's     *)
(* tables, the clock, the arguments of the last call, its return value and  *)
(* the exception it raised, if any.                                        *)
(* A date is an integer day number; a timedelta's .days is a difference of *)
(* day numbers.  A code is a sequence of one-character strings, so that    *)
(* str.startswith is a real prefix test.                                   *)
(***************************************************************************)
EXTENDS Integers, Sequences, FiniteSets, TLC

VARIABLES medical_df, pharmacy_df, eligibility_df, now, call, result, raised

vars == <<medical_df, pharmacy_df, eligibility_df, now, call, result, raised>>

(***************************************************************************)
(* Bounds of the model.                                                    *)
(***************************************************************************)
\* rows in the claims table given to build_diagnosis_cohort
MaxRows == 2
\* service dates of the cohort's claims are 0..MaxDay; the clock runs from
\* MaxDay to MaxDay + 1 and lookback_days ranges over 0..MaxDay + 1
MaxDay == 1
\* rows in the pharmacy table given to calculate_pdc
MaxFills == 2
\* fill dates and the observation window's start_date and end_date are
\* 0..MaxFillDay
MaxFillDay == 2
\* days_supply is -1..MaxSupply
MaxSupply == 2
\* rows in the eligibility table given to calculate_pmpm
MaxSpans == 2
\* rows in the claims table given to calculate_pmpm
MaxPaidClaims == 2
\* eff_date, term_date, service dates and the analysis window of
\* calculate_pmpm are 0..MaxSpanDay
MaxSpanDay == 4
\* the calendar of the model: a month has DaysPerMonth days, and day 0 is the
\* first day of the month EpochMonth months after January of year 0
DaysPerMonth == 2
EpochMonth == 11
\* rows in the claims table given to identify_episodes
MaxEpisodeClaims == 3
\* their service dates are 0..MaxEpisodeDay
MaxEpisodeDay == 3
\* gap_days is 0..MaxGap
MaxGap == 2

(***************************************************************************)
(* Generic helpers.                                                        *)
(***************************************************************************)
Range(s) == {s[i] : i \in 1..Len(s)}

Min2(a, b) == IF a <= b THEN a ELSE b

Max2(a, b) == IF a >= b THEN a ELSE b

SetMin(S) == CHOOSE x \in S : \A y \in S : x <= y

\* lexicographic order on integer tuples of one length
RECURSIVE LexLeq(_, _)
LexLeq(a, b) ==
    IF Len(a) = 0 THEN TRUE
    ELSE IF a[1] < b[1] THEN TRUE
    ELSE IF a[1] > b[1] THEN FALSE
    ELSE LexLeq(Tail(a), Tail(b))

\* the tables of n rows over the index tuples Dom, one per multiset of rows
CanonicalTables(Dom, n) ==
    {t \in [1..n -> Dom] : \A i \in 1..(n - 1) : LexLeq(t[i], t[i + 1])}

(***************************************************************************)
(* Python values.  None / NaN / NaT is the empty tuple and a present value *)
(* v is <<v>>, so that the two never compare equal.                        *)
(***************************************************************************)
None == <<>>

Some(v) == <<v>>

\* a missing cell of a string column; astype(str) turns it into 'nan'
NaN == <<"NaN">>

AsStr(v) == IF v = NaN THEN <<"n", "a", "n">> ELSE v

\* str.startswith
StartsWith(s, p) == Len(p) <= Len(s) /\ SubSeq(s, 1, Len(p)) = p

(***************************************************************************)
(* build_diagnosis_cohort                                                  *)
(***************************************************************************)
\* member ids in ascending order (groupby sorts its keys)
Members == <<"m1", "m2">>

\* the default dx_columns, dx1..dx8
DefaultDxColumns == <<"dx1", "dx2", "dx3", "dx4", "dx5", "dx6", "dx7", "dx8">>

\* the diagnosis columns the claims table carries
TableDxColumns == {"dx1", "dx2"}

E119 == <<"E", "1", "1", "9">>
E11 == <<"E", "1", "1">>
I10 == <<"I", "1", "0">>

\* slip: 'count' (rows) where the code asks for 'nunique' (distinct claim ids)
ClaimCountRows(rows) == Len(rows)

\* slip: the latest matching service date where the code takes the earliest
IndexDateLast(rows) ==
    CHOOSE x \in {rows[i].service_from_date : i \in 1..Len(rows)} :
        \A i \in 1..Len(rows) : rows[i].service_from_date <= x

\* claim_count = ('claim_id', 'nunique')
ClaimCount(rows) == Cardinality({rows[i].claim_id : i \in 1..Len(rows)})

\* index_date = ('service_from_date', 'min')
IndexDate(rows) == SetMin({rows[i].service_from_date : i \in 1..Len(rows)})

\* slip: a value must start with every prefix, as in calculate_pdc
DxMaskEveryPrefix(row, icd_codes, dx_columns, columns) ==
    \E c \in 1..Len(dx_columns) :
        /\ dx_columns[c] \in columns
        /\ \A k \in 1..Len(icd_codes) :
               StartsWith(AsStr(row.dx[dx_columns[c]]), icd_codes[k])

DxMask(row, icd_codes, dx_columns, columns) ==
    \E c \in 1..Len(dx_columns) :
        /\ dx_columns[c] \in columns
        /\ \E k \in 1..Len(icd_codes) :
               StartsWith(AsStr(row.dx[dx_columns[c]]), icd_codes[k])

GroupRows(df, m) ==
    LET Of(r) == r.member_id = m IN SelectSeq(df, Of)

\* cohort[cohort['claim_count'] >= min_claims]
Admit(claim_count, min_claims) == claim_count >= min_claims

\* slip: the rows are appended to a list that outlives the call
CohortRowsAccumulated(dx_claims, keys, min_claims) ==
    LET fresh == [n \in 1..Cardinality({k \in 1..Len(keys) :
                         LET g == GroupRows(dx_claims, keys[k])
                         IN  Len(g) > 0 /\ ClaimCount(g) >= min_claims}) |->
                     [member_id |-> keys[n], index_date |-> 0]]
    IN  (IF call.op = "build_diagnosis_cohort" THEN result ELSE <<>>) \o fresh

RECURSIVE CohortRows(_, _, _)
CohortRows(dx_claims, keys, min_claims) ==
    IF keys = <<>> THEN <<>>
    ELSE LET g == GroupRows(dx_claims, Head(keys))
             rest == CohortRows(dx_claims, Tail(keys), min_claims)
         IN  IF Len(g) > 0 /\ Admit(ClaimCount(g), min_claims)
             THEN <<[member_id |-> Head(keys), index_date |-> IndexDate(g)]>> \o rest
             ELSE rest

\* slip: the window comparison is reversed, claims older than the cutoff stay
build_diagnosis_cohort_before_cutoff(df_in, icd_codes, dx_columns_arg, min_claims, lookback_days, clock) ==
    LET dx_columns == IF dx_columns_arg = None THEN DefaultDxColumns
                      ELSE dx_columns_arg[1]
        cutoff_date == clock - lookback_days
        InWindow(r) == r.service_from_date <= cutoff_date
        df == SelectSeq(df_in, InWindow)
        Mask(r) == DxMask(r, icd_codes, dx_columns, TableDxColumns)
        dx_claims == SelectSeq(df, Mask)
    IN  CohortRows(dx_claims, Members, min_claims)

build_diagnosis_cohort(df_in, icd_codes, dx_columns_arg, min_claims, lookback_days, clock) ==
    LET dx_columns == IF dx_columns_arg = None THEN DefaultDxColumns
                      ELSE dx_columns_arg[1]
        cutoff_date == clock - lookback_days
        InWindow(r) == r.service_from_date >= cutoff_date
        df == SelectSeq(df_in, InWindow)
        Mask(r) == DxMask(r, icd_codes, dx_columns, TableDxColumns)
        dx_claims == SelectSeq(df, Mask)
    IN  CohortRows(dx_claims, Members, min_claims)

\* df[col] on a table that does not carry col
KeyError(column) == [error |-> "KeyError", column |-> column]

\* 'col in df.columns'; the columns of a table are the fields of its rows, and
\* a table without rows is taken to carry every column
HasColumn(df, col) == Len(df) = 0 \/ col \in DOMAIN df[1]

RECURSIVE FirstMissing(_, _)
\* the first of the looked-up columns cols that df does not carry
FirstMissing(df, cols) ==
    IF cols = <<>> THEN None
    ELSE IF ~HasColumn(df, Head(cols)) THEN Some(Head(cols))
    ELSE FirstMissing(df, Tail(cols))

\* how a call ends: it raises e and returns nothing, or it returns v
Raise(e) == [raised |-> Some(e), value |-> None]

Return(v) == [raised |-> None, value |-> v]

\* the columns build_diagnosis_cohort looks up whatever the rows hold, in the
\* order it reaches them: the window filter, the groupby key, the aggregation
CohortLookups == <<"service_from_date", "member_id", "claim_id">>

\* what a call of build_diagnosis_cohort ends in: a KeyError or the cohort
BuildDiagnosisCohortOutcome(df, icd_codes, dx_columns, min_claims, lookback_days, clock) ==
    LET missing == FirstMissing(df, CohortLookups)
    IN  IF missing # None THEN Raise(KeyError(missing[1]))
        ELSE Return(build_diagnosis_cohort(df, icd_codes, dx_columns, min_claims,
                                           lookback_days, clock))

(***************************************************************************)
(* The caller: tables, clock, calls.                                       *)
(***************************************************************************)
NoCall == [op |-> "none"]

\* a behaviour is one call on the tables, then re-runs of that call with the
\* same arguments on the same tables
FirstOrRerun(op, args) ==
    \/ call.op = "none"
    \/ call.op = op /\ call.args = args

\* (claim_id, member_id) of the claims a table may hold
ClaimKeys == <<[claim_id |-> "c1", member_id |-> "m1"],
               [claim_id |-> "c2", member_id |-> "m1"],
               [claim_id |-> "c3", member_id |-> "m2"]>>

\* (dx1, dx2) of a claim
DxProfiles == <<[dx1 |-> E119, dx2 |-> NaN],
                [dx1 |-> I10, dx2 |-> E119],
                [dx1 |-> I10, dx2 |-> NaN]>>

CohortRowIndex == (1..Len(ClaimKeys)) \X (0..MaxDay) \X (1..Len(DxProfiles))

CohortRow(ix) ==
    [claim_id |-> ClaimKeys[ix[1]].claim_id,
     member_id |-> ClaimKeys[ix[1]].member_id,
     service_from_date |-> ix[2],
     dx |-> DxProfiles[ix[3]],
     paid_amount |-> 0]

IcdCodeLists == {<<>>, <<E11>>, <<I10, E11>>}

DxColumnArgs == {None, Some(<<"dx2", "dx9">>)}

InitCohort ==
    /\ \E n \in 0..MaxRows : \E t \in CanonicalTables(CohortRowIndex, n) :
           medical_df = [i \in 1..n |-> CohortRow(t[i])]
    /\ pharmacy_df = <<>>
    /\ eligibility_df = <<>>
    /\ now = MaxDay
    /\ call = NoCall
    /\ result = None
    /\ raised = None

\* a call of build_diagnosis_cohort; datetime.now() is read once, and the
\* clock never runs backwards
BuildDiagnosisCohort ==
    \E icd_codes \in IcdCodeLists, dx_columns \in DxColumnArgs,
       min_claims \in 1..MaxRows, lookback_days \in 0..(MaxDay + 1),
       t \in now..(MaxDay + 1) :
        /\ FirstOrRerun("build_diagnosis_cohort",
                        <<icd_codes, dx_columns, min_claims, lookback_days>>)
        /\ now' = t
        /\ call' = [op |-> "build_diagnosis_cohort", icd_codes |-> icd_codes,
                    dx_columns |-> dx_columns, min_claims |-> min_claims,
                    lookback_days |-> lookback_days, now |-> t,
                    args |-> <<icd_codes, dx_columns, min_claims, lookback_days>>]
        /\ LET outcome == BuildDiagnosisCohortOutcome(medical_df, icd_codes,
                              dx_columns, min_claims, lookback_days, t)
           IN  result' = outcome.value /\ raised' = outcome.raised
        /\ UNCHANGED <<medical_df, pharmacy_df, eligibility_df>>

NextCohort == BuildDiagnosisCohort

SpecCohort == InitCohort /\ [][NextCohort]_vars

(***************************************************************************)
(* Properties of build_diagnosis_cohort.                                   *)
(***************************************************************************)
CohortCalled == call.op = "build_diagnosis_cohort"

CalledDxColumns ==
    IF call.dx_columns = None THEN DefaultDxColumns ELSE call.dx_columns[1]

\* the rows of member m that are in the lookback window and carry, in some
\* configured diagnosis column of the table, a value starting with some prefix
MatchingRows(m) ==
    {i \in 1..Len(medical_df) :
        /\ medical_df[i].member_id = m
        /\ medical_df[i].service_from_date >= call.now - call.lookback_days
        /\ \E col \in Range(CalledDxColumns) \cap TableDxColumns :
               \E code \in Range(call.icd_codes) :
                   StartsWith(AsStr(medical_df[i].dx[col]), code)}

DistinctMatchingClaims(m) == {medical_df[i].claim_id : i \in MatchingRows(m)}

\* C1: every returned row {member_id, index_date} belongs to a member with
\* at least min_claims distinct claim ids among the in-window matching claims,
\* and index_date is the minimum service_from_date over exactly those claims.
C1_CohortRowsMeetThreshold ==
    CohortCalled =>
        \A k \in 1..Len(result) :
            LET m == result[k].member_id IN
            /\ MatchingRows(m) # {}
            /\ Cardinality(DistinctMatchingClaims(m)) >= call.min_claims
            /\ \A i \in MatchingRows(m) :
                   result[k].index_date <= medical_df[i].service_from_date
            /\ \E i \in MatchingRows(m) :
                   result[k].index_date = medical_df[i].service_from_date

\* a member admitted on two distinct claims of different dates, min_claims = 2
C1_Witness ==
    /\ CohortCalled
    /\ call.min_claims = 2
    /\ \E k \in 1..Len(result) :
           \E i, j \in MatchingRows(result[k].member_id) :
               /\ medical_df[i].service_from_date < medical_df[j].service_from_date
               /\ result[k].index_date = medical_df[i].service_from_date

ResultRowsOf(m) == {k \in 1..Len(result) : result[k].member_id = m}

\* C2: a member below the threshold of distinct in-window matching claim ids
\* is absent from the result, and a member at or above it appears exactly once.
C2_CohortCompleteAndExclusive ==
    CohortCalled =>
        \A m \in Range(Members) :
            IF Cardinality(DistinctMatchingClaims(m)) >= call.min_claims
            THEN Cardinality(ResultRowsOf(m)) = 1
            ELSE ResultRowsOf(m) = {}

\* a member with two matching in-window rows that repeat one claim_id is
\* absent under min_claims = 2
C2_Witness ==
    /\ CohortCalled
    /\ call.min_claims = 2
    /\ \E m \in Range(Members) :
           /\ Cardinality(MatchingRows(m)) >= 2
           /\ Cardinality(DistinctMatchingClaims(m)) = 1
           /\ ResultRowsOf(m) = {}

(***************************************************************************)
(* calculate_pdc                                                           *)
(***************************************************************************)
\* the orders DataFrame.sort_values(col) may leave the rows in: ascending by
\* col, rows of equal key in any order (the default quicksort is not stable)
SortValues(rows, col) ==
    LET n == Len(rows)
        Perms == {p \in [1..n -> 1..n] : \A i, j \in 1..n : i # j => p[i] # p[j]}
    IN  {[i \in 1..n |-> rows[p[i]]] :
            p \in {q \in Perms :
                      \A i \in 1..(n - 1) : rows[q[i]][col] <= rows[q[i + 1]][col]}}

RECURSIVE SumRange(_, _, _)
\* covered[lo] + ... + covered[hi - 1], summed by halves
SumRange(covered, lo, hi) ==
    IF hi <= lo THEN 0
    ELSE IF hi = lo + 1 THEN covered[lo]
    ELSE LET mid == (lo + hi) \div 2
         IN  SumRange(covered, lo, mid) + SumRange(covered, mid, hi)

\* covered[0] + ... + covered[n - 1]
SumTo(covered, n) == SumRange(covered, 0, n)

\* round(num / den, 1) in tenths, den > 0: Python rounds the quotient to the
\* nearest tenth and an exact tie to the even tenth
RoundTenths(num, den) ==
    LET q == (10 * num) \div den
        r == (10 * num) % den
    IN  IF 2 * r > den \/ (2 * r = den /\ q % 2 = 1) THEN q + 1 ELSE q

\* slip: a day covered by two fills is counted twice
MarkDaysAdd(covered, fill_day, days_supply, observation_days) ==
    [d \in DOMAIN covered |->
        IF d \in fill_day..(Min2(fill_day + days_supply, observation_days) - 1) /\ d >= 0
        THEN covered[d] + 1 ELSE covered[d]]

\* slip: the supply ends one day late (range's end taken as inclusive)
MarkDaysInclusiveEnd(covered, fill_day, days_supply, observation_days) ==
    [d \in DOMAIN covered |->
        IF d \in fill_day..Min2(fill_day + days_supply, observation_days - 1) /\ d >= 0
        THEN 1 ELSE covered[d]]

\* for d in range(fill_day, min(fill_day + days_supply, observation_days)):
\*     if d >= 0: covered[d] = 1
MarkDays(covered, fill_day, days_supply, observation_days) ==
    [d \in DOMAIN covered |->
        IF d \in fill_day..(Min2(fill_day + days_supply, observation_days) - 1) /\ d >= 0
        THEN 1 ELSE covered[d]]

RECURSIVE MarkFills(_, _, _, _)
\* for _, row in fills.iterrows(): ...
MarkFills(covered, fills, start_date, observation_days) ==
    IF fills = <<>> THEN covered
    ELSE LET fill_day == Head(fills).fill_date - start_date
             days_supply == Head(fills).days_supply
         IN  MarkFills(MarkDays(covered, fill_day, days_supply, observation_days),
                       Tail(fills), start_date, observation_days)

\* the rows calculate_pdc keeps: the member's, dated in [start_date, end_date],
\* whose code starts with every prefix of drug_codes
\* slip: in a window that is not empty, a fill is taken when its supply
\* reaches start_date, not when its date does (supply carried in)
FillMaskCarryIn(row, member_id, drug_codes, start_date, end_date, code_column) ==
    /\ row.member_id = member_id
    /\ start_date <= end_date
    /\ row.fill_date + row.days_supply > start_date
    /\ row.fill_date <= end_date
    /\ \A k \in 1..Len(drug_codes) : StartsWith(AsStr(row[code_column]), drug_codes[k])

\* slip: a code need start with only one of the prefixes, as in the
\* diagnosis match
FillMaskAnyPrefix(row, member_id, drug_codes, start_date, end_date, code_column) ==
    /\ row.member_id = member_id
    /\ row.fill_date >= start_date
    /\ row.fill_date <= end_date
    /\ \E k \in 1..Len(drug_codes) : StartsWith(AsStr(row[code_column]), drug_codes[k])

FillMask(row, member_id, drug_codes, start_date, end_date, code_column) ==
    /\ row.member_id = member_id
    /\ row.fill_date >= start_date
    /\ row.fill_date <= end_date
    /\ \A k \in 1..Len(drug_codes) : StartsWith(AsStr(row[code_column]), drug_codes[k])

\* slip: 'no data' reported as zero adherence
NoFillZero(member_id) ==
    [member_id |-> member_id, pdc |-> Some(0), fills |-> 0, days_covered |-> 0]

\* the return value when no fill is selected
NoFillResult(member_id) ==
    [member_id |-> member_id, pdc |-> None, fills |-> 0, days_covered |-> 0]

ObservationDays(start_date, end_date) == end_date - start_date + 1

\* the return value for the selected fills in sort_values order; pdc is in
\* tenths of a percent
PdcResult(fills, member_id, start_date, end_date) ==
    IF Len(fills) = 0 THEN NoFillResult(member_id)
    ELSE LET observation_days == ObservationDays(start_date, end_date)
             zeros == [d \in 0..(observation_days - 1) |-> 0]
             covered == MarkFills(zeros, fills, start_date, observation_days)
             days_covered == SumTo(covered, observation_days)
             pdc == RoundTenths(100 * days_covered, observation_days)
         IN  [member_id |-> member_id,
              pdc |-> Some(pdc),
              adherent |-> pdc >= 800,
              fills |-> Len(fills),
              days_covered |-> days_covered,
              observation_days |-> observation_days]

\* the values calculate_pdc may return
calculate_pdc(df, member_id, drug_codes, start_date, end_date, code_column) ==
    LET Mask(r) == FillMask(r, member_id, drug_codes, start_date, end_date, code_column)
    IN  {PdcResult(fills, member_id, start_date, end_date) :
            fills \in SortValues(SelectSeq(df, Mask), "fill_date")}

\* the columns calculate_pdc looks up to build the mask and to sort; the code
\* column is looked up once per prefix
PdcLookups(drug_codes, code_column) ==
    <<"member_id", "fill_date">>
        \o (IF Len(drug_codes) > 0 THEN <<code_column>> ELSE <<>>)

\* what a call of calculate_pdc may end in; days_supply is looked up row by
\* row inside the loop over the selected fills
CalculatePdcOutcomes(df, member_id, drug_codes, start_date, end_date, code_column) ==
    LET missing == FirstMissing(df, PdcLookups(drug_codes, code_column))
        Mask(r) == FillMask(r, member_id, drug_codes, start_date, end_date, code_column)
    IN  IF missing # None THEN {Raise(KeyError(missing[1]))}
        ELSE IF Len(SelectSeq(df, Mask)) > 0 /\ ~HasColumn(df, "days_supply")
             THEN {Raise(KeyError("days_supply"))}
        ELSE {Return(v) : v \in calculate_pdc(df, member_id, drug_codes,
                                               start_date, end_date, code_column)}

G5816 == <<"5", "8", "1", "6">>
G2710 == <<"2", "7", "1", "0">>
P58 == <<"5", "8">>
P581 == <<"5", "8", "1">>
P27 == <<"2", "7">>

\* (member_id, gpi) of the fills a table may hold
FillKeys == <<[member_id |-> "m1", gpi |-> G5816],
              [member_id |-> "m1", gpi |-> G2710],
              [member_id |-> "m2", gpi |-> G5816]>>

FillRowIndex == (1..Len(FillKeys)) \X (0..MaxFillDay) \X (-1..MaxSupply)

FillRow(ix) ==
    [member_id |-> FillKeys[ix[1]].member_id,
     gpi |-> FillKeys[ix[1]].gpi,
     fill_date |-> ix[2],
     days_supply |-> ix[3]]

DrugCodeLists == {<<P58, P581>>, <<P58, P27>>}

InitPdc ==
    /\ \E n \in 0..MaxFills : \E t \in CanonicalTables(FillRowIndex, n) :
           pharmacy_df = [i \in 1..n |-> FillRow(t[i])]
    /\ medical_df = <<>>
    /\ eligibility_df = <<>>
    /\ now = 0
    /\ call = NoCall
    /\ result = None
    /\ raised = None

\* the last day of a long observation window, and the supplies of the fills
\* such a window is asked about
LongWindowEnd == 403

LongSupplyFrom == 320

LongSupplyTo == 325

\* the end dates a caller asks about: a day of the fill calendar or, for a
\* table of long-supply fills, the end of the long window
EndDates(df) ==
    (0..MaxFillDay)
        \cup (IF HasColumn(df, "days_supply")
                  /\ \E i \in 1..Len(df) : df[i].days_supply > MaxSupply
               THEN {LongWindowEnd} ELSE {})

\* one long-supply fill dated day 0
InitPdcLong ==
    /\ \E k \in 1..Len(FillKeys), s \in LongSupplyFrom..LongSupplyTo :
           pharmacy_df = <<FillRow(<<k, 0, s>>)>>
    /\ medical_df = <<>>
    /\ eligibility_df = <<>>
    /\ now = 0
    /\ call = NoCall
    /\ result = None
    /\ raised = None

\* a call of calculate_pdc(pharmacy_df, "m1", drug_codes, start_date, end_date)
CalculatePdc ==
    \E drug_codes \in DrugCodeLists, start_date \in 0..MaxFillDay,
       end_date \in EndDates(pharmacy_df) :
        /\ FirstOrRerun("calculate_pdc", <<"m1", drug_codes, start_date, end_date, "gpi">>)
        /\ call' = [op |-> "calculate_pdc", member_id |-> "m1",
                    drug_codes |-> drug_codes, start_date |-> start_date,
                    end_date |-> end_date, code_column |-> "gpi",
                    args |-> <<"m1", drug_codes, start_date, end_date, "gpi">>]
        /\ \E outcome \in CalculatePdcOutcomes(pharmacy_df, "m1", drug_codes,
                                                start_date, end_date, "gpi") :
               result' = outcome.value /\ raised' = outcome.raised
        /\ UNCHANGED <<medical_df, pharmacy_df, eligibility_df, now>>

NextPdc == CalculatePdc

SpecPdc == InitPdc /\ [][NextPdc]_vars

SpecPdcLong == InitPdcLong /\ [][NextPdc]_vars

(***************************************************************************)
(* Properties of calculate_pdc.                                            *)
(***************************************************************************)
PdcCalled == call.op = "calculate_pdc"

\* the fills of the member dated in [start_date, end_date] whose code starts
\* with every prefix of drug_codes
SelectedFills ==
    {i \in 1..Len(pharmacy_df) :
        /\ pharmacy_df[i].member_id = call.member_id
        /\ call.start_date <= pharmacy_df[i].fill_date
        /\ pharmacy_df[i].fill_date <= call.end_date
        /\ \A code \in Range(call.drug_codes) :
               StartsWith(AsStr(pharmacy_df[i][call.code_column]), code)}

\* the days [offset, offset + days_supply - 1] of fill i, offset counted from
\* start_date
SupplyDays(i) ==
    LET offset == pharmacy_df[i].fill_date - call.start_date
    IN  offset..(offset + pharmacy_df[i].days_supply - 1)

WindowDays == 0..(call.end_date - call.start_date)

ScenarioBFills ==
    <<[member_id |-> "m1", gpi |-> G5816, fill_date |-> 0, days_supply |-> 10],
      [member_id |-> "m1", gpi |-> G5816, fill_date |-> 5, days_supply |-> 10]>>

\* C3: days_covered is the size of the union of the selected fills' supply
\* intervals cut to the observation window, so a day under two fills counts
\* once; two 10-day fills at offsets 0 and 5 in a 20-day window give
\* days_covered = 15 and pdc = 75.0.
C3_DaysCoveredIsUnion ==
    /\ PdcCalled =>
           result.days_covered =
               Cardinality((UNION {SupplyDays(i) : i \in SelectedFills}) \cap WindowDays)
    /\ \A r \in calculate_pdc(ScenarioBFills, "m1", <<P58>>, 0, 19, "gpi") :
           r.days_covered = 15 /\ r.pdc = Some(750)

\* two selected fills share a day of the window
C3_Witness ==
    /\ PdcCalled
    /\ \E i, j \in SelectedFills :
           /\ i # j
           /\ SupplyDays(i) \cap SupplyDays(j) \cap WindowDays # {}
           /\ result.days_covered
                  < pharmacy_df[i].days_supply + pharmacy_df[j].days_supply

\* C4: a defined pdc comes with observation_days = end_date - start_date + 1
\* >= 1, 0 <= days_covered <= observation_days and 0 <= pdc <= 100.
C4_PdcRange ==
    (PdcCalled /\ result.pdc # None) =>
        /\ result.observation_days = call.end_date - call.start_date + 1
        /\ result.observation_days >= 1
        /\ 0 <= result.days_covered
        /\ result.days_covered <= result.observation_days
        /\ 0 <= result.pdc[1]
        /\ result.pdc[1] <= 1000

\* overlapping fills whose supply runs past end_date fill the whole window
C4_Witness ==
    /\ PdcCalled
    /\ result.pdc = Some(1000)
    /\ \E i, j \in SelectedFills :
           /\ i # j
           /\ SupplyDays(i) \cap SupplyDays(j) # {}
           /\ \E d \in SupplyDays(j) : d > call.end_date - call.start_date

\* C5: pdc is None, with fills = 0 and days_covered = 0, exactly when no fill
\* is selected; with a selected fill pdc is a number, possibly 0.0.
C5_NoFillsIsUndefined ==
    PdcCalled =>
        IF SelectedFills = {}
        THEN result.pdc = None /\ result.fills = 0 /\ result.days_covered = 0
        ELSE result.pdc # None /\ result.pdc[1] \in 0..1000

\* the member has a fill, but none in the window: pdc is None
C5_Witness ==
    /\ PdcCalled
    /\ result.pdc = None
    /\ \E i \in 1..Len(pharmacy_df) :
           /\ pharmacy_df[i].member_id = call.member_id
           /\ pharmacy_df[i].fill_date > call.end_date
           /\ call.start_date <= call.end_date

(***************************************************************************)
(* calculate_pmpm                                                          *)
(***************************************************************************)
MonthsPerYear == 12

\* .dt.year and .dt.month of a day number
Year(d) == ((d \div DaysPerMonth) + EpochMonth) \div MonthsPerYear

Month(d) == (((d \div DaysPerMonth) + EpochMonth) % MonthsPerYear) + 1

\* pd.to_datetime of a cell that already holds a date
ToDatetime(d) == d

\* slip: the year term of the month count is left out
SpanMonthsNoYear(eff_date, term_date, start_date, end_date) ==
    LET period_start == Max2(ToDatetime(eff_date), start_date)
        period_end == Min2(ToDatetime(term_date), end_date)
    IN  Max2((Month(period_end) - Month(period_start)) + 1, 0)

\* slip: the month count is not clipped at 0
SpanMonthsNoClip(eff_date, term_date, start_date, end_date) ==
    LET period_start == Max2(ToDatetime(eff_date), start_date)
        period_end == Min2(ToDatetime(term_date), end_date)
    IN  (Year(period_end) - Year(period_start)) * MonthsPerYear
            + (Month(period_end) - Month(period_start)) + 1

\* elig['member_months'] of one span
SpanMonths(eff_date, term_date, start_date, end_date) ==
    LET period_start == Max2(ToDatetime(eff_date), start_date)
        period_end == Min2(ToDatetime(term_date), end_date)
    IN  Max2((Year(period_end) - Year(period_start)) * MonthsPerYear
                 + (Month(period_end) - Month(period_start)) + 1, 0)

RECURSIVE SumMonths(_, _, _)
\* the sum of member_months over the rows of one group
SumMonths(spans, start_date, end_date) ==
    IF spans = <<>> THEN 0
    ELSE SpanMonths(Head(spans).eff_date, Head(spans).term_date, start_date, end_date)
             + SumMonths(Tail(spans), start_date, end_date)

RECURSIVE SumPaid(_, _)
\* the sum of the cost column over the rows of one group
SumPaid(claims, cost_column) ==
    IF claims = <<>> THEN 0
    ELSE Head(claims)[cost_column] + SumPaid(Tail(claims), cost_column)

\* member ids in ascending order, with m3 (groupby sorts its keys)
PmpmMembers == <<"m1", "m2", "m3">>

\* member_costs: the groups of the in-window claims, each with its sum
MemberCosts(claims, cost_column) ==
    LET keys == {claims[i].member_id : i \in 1..Len(claims)}
    IN  [m \in keys |-> SumPaid(GroupRows(claims, m), cost_column)]

\* the left merge: the cost of a member without a group is missing
MergedCost(member_costs, m) ==
    IF m \in DOMAIN member_costs THEN Some(member_costs[m]) ELSE None

\* fillna(0)
FillNa0(v) == IF v = None THEN 0 ELSE v[1]

\* slip: the denominator is not clipped at 1
PmpmRateNoClip(total_cost, member_months) ==
    [num |-> total_cost, den |-> member_months]

\* total_cost / member_months.clip(lower=1), kept as a fraction
PmpmRate(total_cost, member_months) ==
    [num |-> total_cost, den |-> Max2(member_months, 1)]

RECURSIVE PmpmRows(_, _, _, _, _)
PmpmRows(elig, keys, member_costs, start_date, end_date) ==
    IF keys = <<>> THEN <<>>
    ELSE LET g == GroupRows(elig, Head(keys))
             rest == PmpmRows(elig, Tail(keys), member_costs, start_date, end_date)
             member_months == SumMonths(g, start_date, end_date)
             total_cost == FillNa0(MergedCost(member_costs, Head(keys)))
         IN  IF Len(g) > 0
             THEN <<[member_id |-> Head(keys),
                     member_months |-> member_months,
                     total_cost |-> total_cost,
                     pmpm |-> PmpmRate(total_cost, member_months)]>> \o rest
             ELSE rest

\* slip: a claim is costed only when its date lies inside one of its
\* member's eligibility spans
calculate_pmpm_covered_claims(df, elig_df, start_date, end_date, cost_column) ==
    LET InWindow(r) ==
            /\ r.service_from_date >= start_date
            /\ r.service_from_date <= end_date
            /\ \E i \in 1..Len(elig_df) :
                   /\ elig_df[i].member_id = r.member_id
                   /\ elig_df[i].eff_date <= r.service_from_date
                   /\ r.service_from_date <= elig_df[i].term_date
        claims == SelectSeq(df, InWindow)
        member_costs == MemberCosts(claims, cost_column)
    IN  PmpmRows(elig_df, PmpmMembers, member_costs, start_date, end_date)

calculate_pmpm(df, elig_df, start_date, end_date, cost_column) ==
    LET InWindow(r) == r.service_from_date >= start_date
                           /\ r.service_from_date <= end_date
        claims == SelectSeq(df, InWindow)
        member_costs == MemberCosts(claims, cost_column)
    IN  PmpmRows(elig_df, PmpmMembers, member_costs, start_date, end_date)

\* the columns calculate_pmpm looks up in the claims table, then in the
\* eligibility table
PmpmClaimLookups(cost_column) == <<"service_from_date", "member_id", cost_column>>

PmpmEligibilityLookups == <<"eff_date", "term_date", "member_id">>

\* what a call of calculate_pmpm ends in
CalculatePmpmOutcome(df, elig_df, start_date, end_date, cost_column) ==
    LET missing == FirstMissing(df, PmpmClaimLookups(cost_column))
        missing_elig == FirstMissing(elig_df, PmpmEligibilityLookups)
    IN  IF missing # None THEN Raise(KeyError(missing[1]))
        ELSE IF missing_elig # None THEN Raise(KeyError(missing_elig[1]))
        ELSE Return(calculate_pmpm(df, elig_df, start_date, end_date, cost_column))

\* slip: elig = eligibility_df without .copy(); the columns of lines 162-168
\* are then added to the caller's table
EligibilityAliased(elig_df, start_date, end_date) ==
    [i \in 1..Len(elig_df) |->
        elig_df[i] @@
        [period_start |-> Max2(elig_df[i].eff_date, start_date),
         period_end |-> Min2(elig_df[i].term_date, end_date),
         member_months |-> SpanMonths(elig_df[i].eff_date, elig_df[i].term_date,
                                      start_date, end_date)]]

\* the caller's eligibility table after the call: elig = eligibility_df.copy()
\* takes the assignments of lines 159-168, the caller's table none
EligibilityAfterCall(elig_df, start_date, end_date) == elig_df

\* eligibility rows: a member and eff_date <= term_date
SpanRowIndex ==
    {ix \in (1..2) \X (0..MaxSpanDay) \X (0..MaxSpanDay) : ix[2] <= ix[3]}

SpanRow(ix) ==
    [member_id |-> PmpmMembers[ix[1]], eff_date |-> ix[2], term_date |-> ix[3]]

PaidAmounts == <<-5, 20>>

\* claims rows of m1 (eligible in every fixture) and m3 (in none)
PaidRowIndex == {1, 3} \X (0..MaxSpanDay) \X (1..Len(PaidAmounts))

PaidRow(ix) ==
    [claim_id |-> "c1", member_id |-> PmpmMembers[ix[1]],
     service_from_date |-> ix[2], dx |-> [c \in TableDxColumns |-> NaN],
     paid_amount |-> PaidAmounts[ix[3]]]

\* the eligibility tables the cost side is run against
SpanFixtures ==
    {<<>>,
     <<SpanRow(<<1, 0, MaxSpanDay>>)>>,
     <<SpanRow(<<1, 0, 0>>)>>,
     <<SpanRow(<<1, 0, 0>>), SpanRow(<<2, 0, MaxSpanDay>>)>>}

\* The cost side (lines 145-156) reads only the claims and the exposure side
\* (lines 158-170) only the eligibility table; they meet in the merge.  The
\* inputs are every eligibility table with no claims, and every claims table
\* with one of the eligibility fixtures.
InitPmpm ==
    /\ \/ /\ \E n \in 0..MaxSpans : \E t \in CanonicalTables(SpanRowIndex, n) :
                 eligibility_df = [i \in 1..n |-> SpanRow(t[i])]
          /\ medical_df = <<>>
       \/ /\ eligibility_df \in SpanFixtures
          /\ \E n \in 1..MaxPaidClaims : \E t \in CanonicalTables(PaidRowIndex, n) :
                 medical_df = [i \in 1..n |-> PaidRow(t[i])]
    /\ pharmacy_df = <<>>
    /\ now = 0
    /\ call = NoCall
    /\ result = None
    /\ raised = None

\* a call of calculate_pmpm(medical_df, eligibility_df, start_date, end_date)
CalculatePmpm ==
    \E start_date, end_date \in 0..MaxSpanDay :
        /\ start_date <= end_date
        /\ FirstOrRerun("calculate_pmpm", <<start_date, end_date, "paid_amount">>)
        /\ call' = [op |-> "calculate_pmpm", start_date |-> start_date,
                    end_date |-> end_date, cost_column |-> "paid_amount",
                    args |-> <<start_date, end_date, "paid_amount">>]
        /\ LET outcome == CalculatePmpmOutcome(medical_df, eligibility_df,
                              start_date, end_date, "paid_amount")
           IN  result' = outcome.value /\ raised' = outcome.raised
        /\ eligibility_df' = IF FirstMissing(medical_df, PmpmClaimLookups("paid_amount")) # None
                                  \/ FirstMissing(eligibility_df, PmpmEligibilityLookups) # None
                              THEN eligibility_df
                              ELSE EligibilityAfterCall(eligibility_df, start_date, end_date)
        /\ UNCHANGED <<medical_df, pharmacy_df, now>>

NextPmpm == CalculatePmpm

SpecPmpm == InitPmpm /\ [][NextPmpm]_vars

(***************************************************************************)
(* Properties of calculate_pmpm.                                           *)
(***************************************************************************)
PmpmCalled == call.op = "calculate_pmpm"

SpansOf(m) == {i \in 1..Len(eligibility_df) : eligibility_df[i].member_id = m}

\* span i lies entirely outside the analysis window
Outside(i) ==
    \/ eligibility_df[i].term_date < call.start_date
    \/ eligibility_df[i].eff_date > call.end_date

ClipStart(i) == Max2(eligibility_df[i].eff_date, call.start_date)

ClipEnd(i) == Min2(eligibility_df[i].term_date, call.end_date)

\* the calendar month a day falls in, counted from day 0's month
MonthNo(d) == d \div DaysPerMonth

\* the number of calendar months the days a..b touch
MonthsTouched(a, b) == Cardinality({MonthNo(d) : d \in a..b})

OverlapMonths(i) == MonthsTouched(ClipStart(i), ClipEnd(i))

RECURSIVE SumOverlapMonths(_)
SumOverlapMonths(S) ==
    IF S = {} THEN 0
    ELSE LET i == CHOOSE y \in S : TRUE
         IN  OverlapMonths(i) + SumOverlapMonths(S \ {i})

\* the claims of member m served in [start_date, end_date]
PaidClaimsOf(m) ==
    {i \in 1..Len(medical_df) :
        /\ medical_df[i].member_id = m
        /\ call.start_date <= medical_df[i].service_from_date
        /\ medical_df[i].service_from_date <= call.end_date}

PmpmRowsOf(m) == {k \in 1..Len(result) : result[k].member_id = m}

\* C6: a span entirely outside [start_date, end_date] adds 0 to its member's
\* member_months, also when it falls in the calendar month of a window
\* boundary: the total is the sum over the overlapping spans alone.
C6_OutsideSpanAddsZero ==
    PmpmCalled =>
        \A k \in 1..Len(result) :
            result[k].member_months =
                SumOverlapMonths({i \in SpansOf(result[k].member_id) : ~Outside(i)})

\* what a span adds: the calendar months its overlap touches, or, outside the
\* window, 1 when the boundary it misses is in its own calendar month
Contribution(i) ==
    IF ~Outside(i) THEN OverlapMonths(i)
    ELSE IF MonthNo(ClipStart(i)) = MonthNo(ClipEnd(i)) THEN 1 ELSE 0

RECURSIVE SumContribution(_)
SumContribution(S) ==
    IF S = {} THEN 0
    ELSE LET i == CHOOSE y \in S : TRUE
         IN  Contribution(i) + SumContribution(S \ {i})

\* C7: an overlapping span adds the inclusive calendar-month count of its
\* overlap with the window, a partly covered month counting whole, and
\* member_months is the sum of what each of the member's spans adds.
C7_MemberMonthsIsSum ==
    PmpmCalled =>
        \A k \in 1..Len(result) :
            result[k].member_months =
                SumContribution(SpansOf(result[k].member_id))

\* a member with two overlapping spans: one cut by end_date inside a month it
\* covers in part, one running across the turn of the year
C7_Witness ==
    /\ PmpmCalled
    /\ \E k \in 1..Len(result) : \E i, j \in SpansOf(result[k].member_id) :
           /\ i # j
           /\ ~Outside(i) /\ ~Outside(j)
           /\ eligibility_df[i].term_date > call.end_date
           /\ eligibility_df[i].eff_date > call.start_date
           /\ OverlapMonths(i) = 1
           /\ Year(ClipStart(j)) < Year(ClipEnd(j))
           /\ result[k].member_months = 1 + OverlapMonths(j)

\* C8: every member with an eligibility span has a row; without claims in the
\* window its total_cost is 0; pmpm is total_cost / max(member_months, 1), so
\* 0 member-months give pmpm = total_cost.
C8_LeftJoinAndRate ==
    PmpmCalled =>
        /\ \A m \in Range(PmpmMembers) :
               SpansOf(m) # {} => Cardinality(PmpmRowsOf(m)) = 1
        /\ \A k \in 1..Len(result) :
               /\ PaidClaimsOf(result[k].member_id) = {} => result[k].total_cost = 0
               /\ result[k].pmpm.num = result[k].total_cost
               /\ result[k].pmpm.den =
                      (IF result[k].member_months >= 1
                       THEN result[k].member_months ELSE 1)

\* a member with 0 member-months and a cost, beside a member without claims
C8_Witness ==
    /\ PmpmCalled
    /\ \E k, l \in 1..Len(result) :
           /\ result[k].member_months = 0
           /\ result[k].total_cost # 0
           /\ result[k].pmpm = [num |-> result[k].total_cost, den |-> 1]
           /\ PaidClaimsOf(result[l].member_id) = {}
           /\ result[l].member_months > 0

\* C9 as stated: every row has total_cost >= 0 and member_months >= 0.
C9_RowsNonNegative ==
    PmpmCalled =>
        \A k \in 1..Len(result) :
            result[k].total_cost >= 0 /\ result[k].member_months >= 0

\* C9, amended: every row has member_months >= 0, and total_cost >= 0 when
\* none of the member's claims in the window has a negative paid amount.
C9_NonNegativeGivenNonNegativeClaims ==
    PmpmCalled =>
        \A k \in 1..Len(result) :
            /\ result[k].member_months >= 0
            /\ (\A i \in PaidClaimsOf(result[k].member_id) :
                    medical_df[i].paid_amount >= 0)
                   => result[k].total_cost >= 0

\* a span two calendar months before the window (a negative raw month count)
\* and two positive claims of the member in the window
C9_Witness ==
    /\ PmpmCalled
    /\ \E k \in 1..Len(result) :
           /\ \E i \in SpansOf(result[k].member_id) :
                  MonthNo(eligibility_df[i].term_date) + 2 <= MonthNo(call.start_date)
           /\ result[k].member_months = 0
           /\ Cardinality(PaidClaimsOf(result[k].member_id)) = 2
           /\ result[k].total_cost > 0

(***************************************************************************)
(* identify_episodes                                                       *)
(***************************************************************************)
\* shift(1) of the service dates: row k gets the date of row k - 1
PrevDate(rows, k) == IF k = 1 THEN None ELSE Some(rows[k - 1].service_from_date)

\* (service_from_date - prev_date).dt.days, NaN on the first row
Gap(rows, k) ==
    IF PrevDate(rows, k) = None THEN None
    ELSE Some(rows[k].service_from_date - PrevDate(rows, k)[1])

\* slip: the first row, whose gap is NaN, does not open an episode
NewEpisodeNoFirst(gap, gap_days) ==
    IF gap # None /\ gap[1] > gap_days THEN 1 ELSE 0

\* slip: a gap equal to gap_days opens an episode (>= for >)
NewEpisodeGeq(gap, gap_days) ==
    IF gap = None \/ gap[1] >= gap_days THEN 1 ELSE 0

\* ((gap > gap_days) | gap.isna()).astype(int)
NewEpisode(gap, gap_days) ==
    IF gap = None \/ gap[1] > gap_days THEN 1 ELSE 0

RECURSIVE CumSum(_, _, _)
\* new_episode.cumsum() at row k
CumSum(rows, gap_days, k) ==
    IF k = 0 THEN 0
    ELSE CumSum(rows, gap_days, k - 1) + NewEpisode(Gap(rows, k), gap_days)

\* the frame returned for the member's claims in sort_values order
EpisodeFrame(rows, gap_days) ==
    [k \in 1..Len(rows) |->
        rows[k] @@ [prev_date |-> PrevDate(rows, k),
                    gap |-> Gap(rows, k),
                    new_episode |-> NewEpisode(Gap(rows, k), gap_days),
                    episode_num |-> CumSum(rows, gap_days, k)]]

\* the rows of a frame with their index labels (a RangeIndex, from 1 here)
WithIndex(df) == [i \in 1..Len(df) |-> df[i] @@ [index |-> i]]

\* slip: the member filter of line 195 is left out
identify_episodes_any_member(claims_df, member_id, gap_days) ==
    LET member_claims == WithIndex(claims_df)
    IN  IF Len(member_claims) = 0 THEN {<<>>}
        ELSE {EpisodeFrame(sorted, gap_days) :
                 sorted \in SortValues(member_claims, "service_from_date")}

\* the values identify_episodes may return; pd.DataFrame() is <<>>
identify_episodes(claims_df, member_id, gap_days) ==
    LET member_claims == GroupRows(WithIndex(claims_df), member_id)
    IN  IF Len(member_claims) = 0 THEN {<<>>}
        ELSE {EpisodeFrame(sorted, gap_days) :
                 sorted \in SortValues(member_claims, "service_from_date")}

\* the columns identify_episodes looks up before it tests for no claims
EpisodeLookups == <<"member_id", "service_from_date">>

\* slip: a member without claims is reported as an error
IdentifyEpisodesOutcomesRaise(claims_df, member_id, gap_days) ==
    LET missing == FirstMissing(claims_df, EpisodeLookups)
    IN  IF missing # None THEN {Raise(KeyError(missing[1]))}
        ELSE IF Len(GroupRows(claims_df, member_id)) = 0
             THEN {Raise([error |-> "ValueError", column |-> "member_id"])}
        ELSE {Return(v) : v \in identify_episodes(claims_df, member_id, gap_days)}

\* what a call of identify_episodes may end in
IdentifyEpisodesOutcomes(claims_df, member_id, gap_days) ==
    LET missing == FirstMissing(claims_df, EpisodeLookups)
    IN  IF missing # None THEN {Raise(KeyError(missing[1]))}
        ELSE {Return(v) : v \in identify_episodes(claims_df, member_id, gap_days)}

EpisodeRowIndex == (1..2) \X (0..MaxEpisodeDay)

EpisodeRow(ix) ==
    [claim_id |-> "c1", member_id |-> Members[ix[1]], service_from_date |-> ix[2],
     dx |-> [c \in TableDxColumns |-> E119], paid_amount |-> 0]

InitEpisodes ==
    /\ \E n \in 0..MaxEpisodeClaims : \E t \in [1..n -> EpisodeRowIndex] :
           medical_df = [i \in 1..n |-> EpisodeRow(t[i])]
    /\ pharmacy_df = <<>>
    /\ eligibility_df = <<>>
    /\ now = 0
    /\ call = NoCall
    /\ result = None
    /\ raised = None

\* a call of identify_episodes(medical_df, member_id, gap_days)
IdentifyEpisodes ==
    \E member_id \in Range(Members), gap_days \in 0..MaxGap :
        /\ FirstOrRerun("identify_episodes", <<member_id, gap_days>>)
        /\ call' = [op |-> "identify_episodes", member_id |-> member_id,
                    gap_days |-> gap_days, args |-> <<member_id, gap_days>>]
        /\ \E outcome \in IdentifyEpisodesOutcomes(medical_df, member_id, gap_days) :
               result' = outcome.value /\ raised' = outcome.raised
        /\ UNCHANGED <<medical_df, pharmacy_df, eligibility_df, now>>

NextEpisodes == IdentifyEpisodes

SpecEpisodes == InitEpisodes /\ [][NextEpisodes]_vars

(***************************************************************************)
(* Any of the four functions, on any of the inputs above.                  *)
(***************************************************************************)
Init == InitCohort \/ InitPdc \/ InitPmpm \/ InitEpisodes

Next == BuildDiagnosisCohort \/ CalculatePdc \/ CalculatePmpm \/ IdentifyEpisodes

Spec == Init /\ [][Next]_vars

(***************************************************************************)
(* Properties of identify_episodes.                                        *)
(***************************************************************************)
EpisodesCalled == call.op = "identify_episodes"

\* the positions 2..k of the result whose gap from the row before exceeds
\* gap_days
LongGaps(rows, gap_days, k) ==
    {j \in 2..k :
        rows[j].service_from_date - rows[j - 1].service_from_date > gap_days}

\* ascending service dates, the first row in episode 1, and row k in episode
\* 1 + the number of long gaps up to k
WellNumbered(rows, gap_days) ==
    /\ \A k \in 1..(Len(rows) - 1) :
           /\ rows[k].service_from_date <= rows[k + 1].service_from_date
           /\ rows[k].episode_num <= rows[k + 1].episode_num
           /\ rows[k + 1].service_from_date - rows[k].service_from_date > gap_days
                  => rows[k].episode_num < rows[k + 1].episode_num
    /\ Len(rows) > 0 => rows[1].episode_num = 1
    /\ \A k \in 1..Len(rows) :
           rows[k].episode_num = 1 + Cardinality(LongGaps(rows, gap_days, k))

ScenarioAClaims ==
    <<[claim_id |-> "c1", member_id |-> "m1", service_from_date |-> 100],
      [claim_id |-> "c2", member_id |-> "m1", service_from_date |-> 0],
      [claim_id |-> "c3", member_id |-> "m1", service_from_date |-> 40]>>

\* C10: the result lists the member's claims by ascending service date; the
\* first is in episode 1, episode_num never decreases, and the k-th claim's
\* episode_num is 1 + the number of claims at positions 2..k whose gap from
\* their predecessor exceeds gap_days, so such a claim is in a later episode
\* than its predecessor; claims at days 0, 40, 100 with gap_days = 30 are in
\* episodes 1, 2, 3.
C10_EpisodeNumbering ==
    /\ EpisodesCalled =>
           /\ WellNumbered(result, call.gap_days)
           /\ {result[k].index : k \in 1..Len(result)}
                  = {i \in 1..Len(medical_df) : medical_df[i].member_id = call.member_id}
           /\ Len(result) = Cardinality({result[k].index : k \in 1..Len(result)})
    /\ \A r \in identify_episodes(ScenarioAClaims, "m1", 30) :
           [k \in 1..Len(r) |-> r[k].episode_num] = <<1, 2, 3>>

\* three claims of the member given out of date order: two in episode 1, the
\* third, after a long gap, in episode 2
C10_Witness ==
    /\ EpisodesCalled
    /\ Len(result) = 3
    /\ result[1].index # 1
    /\ result[1].service_from_date < result[2].service_from_date
    /\ result[2].episode_num = 1
    /\ result[3].episode_num = 2

\* C11: two consecutive rows of the result carry the same episode_num exactly
\* when the gap between them is <= gap_days; a gap equal to gap_days opens no
\* episode, and rows of one service date share an episode.
C11_SameEpisodeIffShortGap ==
    EpisodesCalled =>
        \A k \in 1..(Len(result) - 1) :
            /\ (result[k].episode_num = result[k + 1].episode_num)
                   <=> (result[k + 1].service_from_date - result[k].service_from_date
                            <= call.gap_days)
            /\ result[k].service_from_date = result[k + 1].service_from_date
                   => result[k].episode_num = result[k + 1].episode_num

\* two claims of one date under gap_days = 0, then a later claim in a new
\* episode
C11_Witness ==
    /\ EpisodesCalled
    /\ call.gap_days = 0
    /\ Len(result) = 3
    /\ result[1].service_from_date = result[2].service_from_date
    /\ result[1].episode_num = result[2].episode_num
    /\ result[3].episode_num = result[2].episode_num + 1

(***************************************************************************)
(* Re-running a function.  The caller holds the tables of one of the three *)
(* functions and runs that function on them, again and again.              *)
(***************************************************************************)
InitRerun == InitCohort \/ InitPdc \/ InitPmpm

NextRerun ==
    \/ now > 0 /\ BuildDiagnosisCohort
    \/ medical_df = <<>> /\ eligibility_df = <<>> /\ CalculatePdc
    \/ pharmacy_df = <<>> /\ now = 0 /\ CalculatePmpm

SpecRerun == InitRerun /\ [][NextRerun]_vars

\* a step that runs again the call made last, at the same clock reading
SameCallAgain ==
    /\ call.op # "none"
    /\ call'.op = call.op
    /\ call'.args = call.args
    /\ now' = now
    /\ medical_df' = medical_df
    /\ pharmacy_df' = pharmacy_df
    /\ eligibility_df' = eligibility_df

InitQueries == InitCohort \/ InitEpisodes

\* both functions read the claims table; the cohort is built on the tables of
\* at most MaxRows claims
NextQueries ==
    \/ Len(medical_df) <= MaxRows /\ BuildDiagnosisCohort
    \/ IdentifyEpisodes

SpecQueries == InitQueries /\ [][NextQueries]_vars

\* C13: build_diagnosis_cohort with no claim in the lookback window matching
\* any prefix returns the empty cohort, and identify_episodes for a member
\* without claims returns the empty frame; neither ends in an error.
C13_EmptyResultIsNotAnError ==
    /\ CohortCalled /\ (\A m \in Range(Members) : MatchingRows(m) = {})
           => raised = None /\ result = <<>>
    /\ EpisodesCalled /\ Len(GroupRows(medical_df, call.member_id)) = 0
           => raised = None /\ result = <<>>

C13_Witness ==
    \/ /\ CohortCalled
       /\ Len(medical_df) = 2
       /\ \A m \in Range(Members) : MatchingRows(m) = {}
       /\ result = <<>>
    \/ /\ EpisodesCalled
       /\ Len(medical_df) > 0
       /\ Len(GroupRows(medical_df, call.member_id)) = 0
       /\ result = <<>>

(***************************************************************************)
(* Malformed and missing fields.                                           *)
(***************************************************************************)
\* the call ended in an error instead of a value
Raised == raised # None

\* C14: when a selected fill has a negative days_supply, calculate_pdc ends
\* in an error; it does not return a result that counts the fill.
C14_NegativeSupplyFailsFast ==
    PdcCalled /\ (\E i \in SelectedFills : pharmacy_df[i].days_supply < 0)
        => Raised

\* the table df without the columns cols
Drop(df, cols) ==
    [i \in 1..Len(df) |-> [f \in (DOMAIN df[i]) \ cols |-> df[i][f]]]

\* no column, or one column, of the row; the diagnosis columns are left in
\* place (their absence is the business of dx_columns)
DropSets(row) == {{}} \cup {{c} : c \in (DOMAIN row) \ {"dx"}}

\* one-row tables, as they are or short of one column: a claims table, a
\* fills table, or a claims table with an eligibility table
InitColumns ==
    /\ \/ /\ \E ix \in CohortRowIndex : \E cols \in DropSets(CohortRow(ix)) :
                 medical_df = Drop(<<CohortRow(ix)>>, cols)
          /\ pharmacy_df = <<>>
          /\ eligibility_df = <<>>
       \/ /\ \E ix \in FillRowIndex : \E cols \in DropSets(FillRow(ix)) :
                 pharmacy_df = Drop(<<FillRow(ix)>>, cols)
          /\ medical_df = <<>>
          /\ eligibility_df = <<>>
       \/ /\ \E ix \in PaidRowIndex : \E cols \in DropSets(PaidRow(ix)) :
                 medical_df = Drop(<<PaidRow(ix)>>, cols)
          /\ \E elig \in SpanFixtures \ {<<>>} : \E cols \in DropSets(elig[1]) :
                 eligibility_df = Drop(elig, cols)
          /\ pharmacy_df = <<>>
    /\ now = 0
    /\ call = NoCall
    /\ result = None
    /\ raised = None

NextColumns ==
    \/ Len(medical_df) > 0 /\ Len(eligibility_df) = 0 /\ BuildDiagnosisCohort
    \/ Len(pharmacy_df) > 0 /\ CalculatePdc
    \/ Len(eligibility_df) > 0 /\ CalculatePmpm
    \/ Len(medical_df) > 0 /\ Len(eligibility_df) = 0 /\ IdentifyEpisodes

SpecColumns == InitColumns /\ [][NextColumns]_vars

\* the columns of cols that df does not carry
Absent(df, cols) == {c \in cols : ~HasColumn(df, c)}

\* the required columns missing from the tables of the call made
MissingRequired ==
    CASE CohortCalled ->
             Absent(medical_df, {"member_id", "claim_id", "service_from_date"})
      [] PdcCalled ->
             Absent(pharmacy_df, {"member_id", "fill_date", "days_supply",
                                  call.code_column})
      [] PmpmCalled ->
             Absent(medical_df, {"member_id", "service_from_date", call.cost_column})
                 \cup Absent(eligibility_df, {"member_id", "eff_date", "term_date"})
      [] EpisodesCalled ->
             Absent(medical_df, {"member_id", "service_from_date"})
      [] OTHER -> {}

\* C15: a call on a table that lacks a required column ends in an error that
\* names a missing column, whatever the rows select.
C15_MissingColumnRaises ==
    MissingRequired # {}
        => Raised /\ raised[1].column \in MissingRequired /\ result = None

(***************************************************************************)
(* The caller's tables.                                                    *)
(***************************************************************************)
\* each function on its own input tables
NextCalls ==
    \/ NextRerun
    \/ now = 0 /\ pharmacy_df = <<>> /\ eligibility_df = <<>> /\ IdentifyEpisodes

SpecCalls == Init /\ [][NextCalls]_vars

InitPerMember == InitPdc \/ InitEpisodes

NextPerMember ==
    \/ medical_df = <<>> /\ CalculatePdc
    \/ pharmacy_df = <<>> /\ IdentifyEpisodes

SpecPerMember == InitPerMember /\ [][NextPerMember]_vars

\* the table df with the records of every member other than m removed
OnlyMember(df, m) ==
    LET Keep(r) == r.member_id = m IN SelectSeq(df, Keep)

\* a frame without its index labels
StripIndex(frame) ==
    [k \in 1..Len(frame) |->
        [f \in (DOMAIN frame[k]) \ {"index"} |-> frame[k][f]]]

TextBeginsWith(v, p) ==
    LET text == IF v = NaN THEN <<"n", "a", "n">> ELSE v
    IN  /\ Len(p) <= Len(text)
        /\ \A n \in 1..Len(p) : text[n] = p[n]

\* some configured diagnosis column that row i carries holds a value whose
\* text begins with some prefix
DxMatches(i) ==
    \E col \in Range(CalledDxColumns) \cap DOMAIN medical_df[i].dx :
        \E code \in Range(call.icd_codes) :
            TextBeginsWith(medical_df[i].dx[col], code)

\* C18: the mask of build_diagnosis_cohort is true for a claim exactly when
\* some configured dx column present in the table holds a value whose text
\* starts with some prefix; configured columns the table lacks raise nothing;
\* under min_claims = 1 the members returned are those with such a claim in
\* the window; an empty prefix list returns nobody.
C18_DxMatchIsAnyColumnAnyPrefix ==
    CohortCalled =>
        /\ raised = None
        /\ \A i \in 1..Len(medical_df) :
               DxMask(medical_df[i], call.icd_codes, CalledDxColumns, TableDxColumns)
                   <=> DxMatches(i)
        /\ call.min_claims = 1 =>
               \A m \in Range(Members) :
                   ResultRowsOf(m) # {}
                       <=> \E i \in 1..Len(medical_df) :
                               /\ medical_df[i].member_id = m
                               /\ medical_df[i].service_from_date
                                      >= call.now - call.lookback_days
                               /\ DxMatches(i)
        /\ call.icd_codes = <<>> => result = <<>>

\* dx9 is configured and absent, dx1 is present and not configured: the row
\* matches on dx2 alone, by the second prefix
C18_Witness ==
    /\ CohortCalled
    /\ call.dx_columns = Some(<<"dx2", "dx9">>)
    /\ call.icd_codes = <<I10, E11>>
    /\ call.min_claims = 1
    /\ Len(medical_df) = 2
    /\ medical_df[1].dx = [dx1 |-> I10, dx2 |-> E119]
    /\ medical_df[2].dx = [dx1 |-> I10, dx2 |-> NaN]
    /\ medical_df[1].member_id # medical_df[2].member_id
    /\ Len(result) = 1
    /\ result[1].member_id = medical_df[1].member_id

(***************************************************************************)
(* The fill selection.                                                     *)
(***************************************************************************)
\* fill i is the member's, dated within [start_date, end_date], and the text
\* of its code begins with every prefix
FillQualifies(i) ==
    /\ pharmacy_df[i].member_id = call.member_id
    /\ pharmacy_df[i].fill_date \in call.start_date..call.end_date
    /\ \A code \in Range(call.drug_codes) :
           TextBeginsWith(pharmacy_df[i][call.code_column], code)

\* C19: calculate_pdc selects exactly the fills of the member dated within
\* [start_date, end_date], both ends included, whose code starts with every
\* prefix of drug_codes, and 'fills' is their number.
C19_SelectionIsEveryPrefix ==
    PdcCalled =>
        /\ \A i \in 1..Len(pharmacy_df) :
               FillMask(pharmacy_df[i], call.member_id, call.drug_codes,
                        call.start_date, call.end_date, call.code_column)
                   <=> FillQualifies(i)
        /\ result.fills = Cardinality({i \in 1..Len(pharmacy_df) : FillQualifies(i)})

\* one fill on start_date and one on end_date, both starting with both
\* prefixes, are both counted
C19_Witness ==
    /\ PdcCalled
    /\ call.start_date < call.end_date
    /\ Len(pharmacy_df) = 2
    /\ \A i \in 1..2 : pharmacy_df[i].member_id = call.member_id
    /\ pharmacy_df[1].fill_date = call.start_date
    /\ pharmacy_df[2].fill_date = call.end_date
    /\ call.drug_codes = <<P58, P581>>
    /\ result.fills = 2

(***************************************************************************)
(* The rolling lookback window.                                            *)
(***************************************************************************)
\* the cohort is built again on the same claims with the same arguments, at
\* a time not before the last run
LaterRun ==
    /\ CohortCalled
    /\ call'.op = call.op
    /\ call'.args = call.args
    /\ medical_df' = medical_df
    /\ call.now <= call'.now

\* C20: over the same claims and arguments, every member of the cohort of a
\* later run is in the cohort of the earlier run, with an index_date not
\* earlier than in that run.
C20_CohortShrinksAsClockAdvances ==
    [][LaterRun =>
           \A k2 \in 1..Len(result') :
               \E k1 \in 1..Len(result) :
                   /\ result[k1].member_id = result'[k2].member_id
                   /\ result[k1].index_date <= result'[k2].index_date]_vars

\* a run at MaxDay + 1 whose window has lost the member's matching claim of
\* day 0 and kept the one of day 1
C20_Witness ==
    /\ CohortCalled
    /\ call.now = MaxDay + 1
    /\ call.lookback_days = MaxDay
    /\ call.min_claims = 1
    /\ Len(medical_df) = 2
    /\ medical_df[1].member_id = medical_df[2].member_id
    /\ medical_df[1].service_from_date = 0
    /\ medical_df[2].service_from_date = 1
    /\ \A i \in 1..2 : DxMatches(i)
    /\ Len(result) = 1
    /\ result[1].index_date = 1

(***************************************************************************)
(* Fills dated before the window.                                          *)
(***************************************************************************)
\* the table df without the fills dated before start_date
FromStart(df, start_date) ==
    LET Keep(r) == r.fill_date >= start_date IN SelectSeq(df, Keep)

\* the days, from the earliest possible offset up to the end of the window,
\* that lie under the supply of a selected fill: no cut at day 0
DaysUnderSupply ==
    {d \in (0 - MaxFillDay)..(call.end_date - call.start_date) :
        \E i \in SelectedFills : d \in SupplyDays(i)}

\* C21: a fill dated before start_date is not counted in 'fills' and covers
\* no day, whatever its days_supply: the result is the one computed without
\* such fills; every selected fill has a day offset >= 0, and days_covered is
\* the supply cut at the upper end of the window alone.
C21_EarlyFillsContributeNothing ==
    PdcCalled =>
        /\ result \in calculate_pdc(FromStart(pharmacy_df, call.start_date),
                                    call.member_id, call.drug_codes,
                                    call.start_date, call.end_date,
                                    call.code_column)
        /\ \A i \in SelectedFills : pharmacy_df[i].fill_date - call.start_date >= 0
        /\ \A i \in 1..Len(pharmacy_df) :
               pharmacy_df[i].fill_date < call.start_date => i \notin SelectedFills
        /\ result.days_covered = Cardinality(DaysUnderSupply)

\* the member's fill of the day before start_date, with the right code and a
\* supply that reaches into the window, is the only fill: nothing is counted
C21_Witness ==
    /\ PdcCalled
    /\ call.drug_codes = <<P58, P581>>
    /\ Len(pharmacy_df) = 1
    /\ pharmacy_df[1].member_id = call.member_id
    /\ pharmacy_df[1].gpi = G5816
    /\ pharmacy_df[1].fill_date = call.start_date - 1
    /\ pharmacy_df[1].days_supply = 2
    /\ call.start_date <= call.end_date
    /\ result.fills = 0
    /\ result.days_covered = 0

(***************************************************************************)
(* The adherence flag.                                                     *)
(***************************************************************************)
\* C22: a result flagged adherent has days_covered at least 80% of
\* observation_days, that is 5 * days_covered >= 4 * observation_days.
C22_AdherentMeansEightyPercent ==
    (PdcCalled /\ result.pdc # None /\ result.adherent)
        => 5 * result.days_covered >= 4 * result.observation_days

(***************************************************************************)
(* Member-months against the calendar.                                     *)
(***************************************************************************)
\* no two eligibility spans of member m share a day
NonOverlapping(m) ==
    \A i, j \in SpansOf(m) :
        i # j => \/ eligibility_df[i].term_date < eligibility_df[j].eff_date
                 \/ eligibility_df[j].term_date < eligibility_df[i].eff_date

\* C23: for a member whose spans are pairwise non-overlapping, member_months
\* is at most the number of calendar months the window [start_date, end_date]
\* touches; two disjoint spans within one month count that month once.
C23_MemberMonthsWithinWindowMonths ==
    PmpmCalled =>
        \A k \in 1..Len(result) :
            NonOverlapping(result[k].member_id)
                => result[k].member_months
                       <= MonthsTouched(call.start_date, call.end_date)

(***************************************************************************)
(* The rows of the PMPM result.                                            *)
(***************************************************************************)
RECURSIVE SumPaidOf(_)
\* the paid amounts of the claims S added up
SumPaidOf(S) ==
    IF S = {} THEN 0
    ELSE LET i == CHOOSE y \in S : TRUE
         IN  medical_df[i].paid_amount + SumPaidOf(S \ {i})

\* claim i is dated inside some eligibility span of its member
InsideSpan(i) ==
    \E j \in SpansOf(medical_df[i].member_id) :
        /\ eligibility_df[j].eff_date <= medical_df[i].service_from_date
        /\ medical_df[i].service_from_date <= eligibility_df[j].term_date

\* C24: the result has one row for each member_id of the eligibility table
\* and no other row, so a member with claims and no span has no row; the
\* total_cost of a row is the sum of the member's claims dated in
\* [start_date, end_date], inside an eligibility span or not.
C24_RowsAreEligibleMembers ==
    PmpmCalled =>
        /\ \A m \in Range(PmpmMembers) :
               Cardinality(PmpmRowsOf(m)) = (IF SpansOf(m) # {} THEN 1 ELSE 0)
        /\ Len(result)
               = Cardinality({eligibility_df[i].member_id : i \in 1..Len(eligibility_df)})
        /\ \A k \in 1..Len(result) :
               result[k].total_cost = SumPaidOf(PaidClaimsOf(result[k].member_id))

\* m3 has a claim in the window and no span; m1 has a claim in the window
\* dated outside its only span: one row, for m1, carrying m1's claim alone
C24_Witness ==
    /\ PmpmCalled
    /\ Len(medical_df) = 2
    /\ \E i, j \in 1..2 :
           /\ medical_df[i].member_id = "m3"
           /\ i \in PaidClaimsOf("m3")
           /\ medical_df[j].member_id = "m1"
           /\ j \in PaidClaimsOf("m1")
           /\ ~InsideSpan(j)
           /\ medical_df[i].paid_amount = 20
           /\ medical_df[j].paid_amount = 20
    /\ SpansOf("m1") # {}
    /\ Len(result) = 1
    /\ result[1].member_id = "m1"
    /\ result[1].total_cost = 20

====
